---- MODULE Spec2Model ----
(***************************************************************************)
(* The HTTP handler layer of src/src/main.rs with the request types of     *)
(* src/src/types.rs.  Every route is a request-scoped transformation:      *)
(* deserialize the JSON body, validate, call the SDK, wrap the result.     *)
(*                                                                         *)
(* Data representation.                                                    *)
(*   - A byte string is [words, tail]: a sequence of 32-byte words         *)
(*     followed by `tail` further bytes, so its length is                  *)
(*     32 * Len(words) + tail.  Keys, addresses and signature halves are   *)
(*     words.                                                              *)
(*   - A string field is a Text.  Base58 is a bijection between byte       *)
(*     strings and the strings over its alphabet, so a string over the     *)
(*     alphabet is represented by the bytes it decodes to (kind "b58");    *)
(*     the empty string is the encoding of the empty byte string.  A       *)
(*     string holding a character outside the alphabet has kind "bad"      *)
(*     (it is never empty).  A JSON key that is missing has kind "absent". *)
(*   - Messages are 0..NumMsgs, 0 being the empty string; numbers are      *)
(*     naturals; a missing message or number is AbsentNum.                 *)
(***************************************************************************)
EXTENDS Integers, Sequences, FiniteSets, TLC

VARIABLES
    sdkErr,   \* the instruction constructors of the linked SDK that return Err
    pc,       \* "idle" | "responded": position of the request/response cycle
    req,      \* the request being answered
    resp,     \* what the connection got back for req
    held,     \* what the client keeps from /keypair and /message/sign answers
    seen      \* an earlier request and its answer (history)

vars == <<sdkErr, pc, req, resp, held, seen>>

-----------------------------------------------------------------------------
(* Bounds *)

NumKeys == 2
NumMsgs == 2
MaxAmount == 1
MaxDecimals == 1
NumKeysH == 1
MaxAmountH == 1

(* Program constants *)

OK == 200
BAD_REQUEST == 400
INTERNAL_SERVER_ERROR == 500
SIGNATURE_BYTES == 64

-----------------------------------------------------------------------------
(* Bytes, words and strings *)

Word(t, k, m) == [t |-> t, k |-> k, m |-> m]

Bytes(words, tail) == [words |-> words, tail |-> tail]

NoBytes == Bytes(<<>>, 0)

ByteLen(b) == 32 * Len(b.words) + b.tail

Absent == [kind |-> "absent", bytes |-> NoBytes]

AbsentNum == -1

BadText == [kind |-> "bad", bytes |-> NoBytes]

Base58Encode(b) == [kind |-> "b58", bytes |-> b]

Base58Decode(s) ==
    IF s.kind = "b58" THEN [ok |-> TRUE, bytes |-> s.bytes]
    ELSE [ok |-> FALSE, bytes |-> NoBytes]

IsEmpty(s) == s.kind = "b58" /\ ByteLen(s.bytes) = 0

EmptyText == Base58Encode(NoBytes)

OneByteText == Base58Encode(Bytes(<<>>, 1))

-----------------------------------------------------------------------------
(* SDK: keys, addresses, signatures *)

SecretWord(k) == Word("sk", k, 0)

PublicWord(k) == Word("pk", k, 0)

TOKEN_PROGRAM_ID == Word("program", 1, 0)

SYSTEM_PROGRAM_ID == Word("program", 2, 0)

SYSVAR_RENT_ID == Word("sysvar", 1, 0)

\* A parser that checks only that the string decodes, not that it decodes to
\* 32 bytes.
PubkeyFromStrAnyLength(s) ==
    LET d == Base58Decode(s)
    IN  IF d.ok /\ Len(d.bytes.words) >= 1
        THEN [ok |-> TRUE, key |-> d.bytes.words[1]]
        ELSE IF d.ok THEN [ok |-> TRUE, key |-> Word("pk", 0, 0)]
        ELSE [ok |-> FALSE, key |-> Word("none", 0, 0)]

\* A parser that keeps state across requests: once a request has been
\* answered it accepts whatever decodes.
PubkeyFromStrStateful(s) ==
    LET d == Base58Decode(s)
    IN  IF d.ok /\ ByteLen(d.bytes) = 32
        THEN [ok |-> TRUE, key |-> d.bytes.words[1]]
        ELSE IF d.ok /\ seen.taken THEN [ok |-> TRUE, key |-> Word("pk", 0, 0)]
        ELSE [ok |-> FALSE, key |-> Word("none", 0, 0)]

\* Pubkey::from_str: the string must be base58 and decode to exactly 32
\* bytes.
PubkeyFromStr(s) ==
    LET d == Base58Decode(s)
    IN  IF d.ok /\ ByteLen(d.bytes) = 32
        THEN [ok |-> TRUE, key |-> d.bytes.words[1]]
        ELSE [ok |-> FALSE, key |-> Word("none", 0, 0)]

\* Pubkey::to_string and Signature::to_string: base58 of the bytes.
PubkeyToString(key) == Base58Encode(Bytes(<<key>>, 0))

\* Keypair::to_base58_string: base58 of the 64 bytes secret || public.
KeypairToBase58(k) == Base58Encode(Bytes(<<SecretWord(k), PublicWord(k)>>, 0))

\* The key a 32-byte seed stands for.  Seeds that are not secret words of
\* the model (arbitrary 32 bytes) all stand for key 0.
KeyOfSeed(w) == IF w.t = "sk" THEN w.k ELSE 0

\* A seed reader that takes the last 32 bytes instead of the first.
keypair_from_seed_last32(seed) ==
    IF ByteLen(seed) < 32 THEN [ok |-> FALSE, key |-> 0]
    ELSE [ok |-> TRUE, key |-> KeyOfSeed(seed.words[Len(seed.words)])]

\* keypair_from_seed: Err when fewer than 32 bytes, else the key of the
\* first 32 bytes.
keypair_from_seed(seed) ==
    IF ByteLen(seed) < 32 THEN [ok |-> FALSE, key |-> 0]
    ELSE [ok |-> TRUE, key |-> KeyOfSeed(seed.words[1])]

\* Keypair::sign_message: ed25519 is deterministic, the signature is the 64
\* bytes R || S fixed by the key and the message.
SignMessage(k, m) == Bytes(<<Word("sigR", k, m), Word("sigS", k, m)>>, 0)

\* Signature::verify(pubkey bytes, message bytes).
SignatureVerify(sig, pubkey, m) ==
    /\ pubkey.t = "pk"
    /\ sig = SignMessage(pubkey.k, m)

\* get_associated_token_address(wallet, mint): a derived address, distinct
\* for distinct (wallet, mint) and distinct from every wallet address.
get_associated_token_address(wallet, mint) == Word("ata", wallet.k, mint.k)

-----------------------------------------------------------------------------
(* SDK: instruction constructors *)

AccountMeta(pubkey, is_signer, is_writable) ==
    [pubkey |-> pubkey, is_signer |-> is_signer, is_writable |-> is_writable]

FallibleConstructors == {"initialize_mint", "mint_to", "transfer_token"}

SdkFails(ctor) == ctor \in sdkErr

initialize_mint(program, mint, authority, freeze, decimals) ==
    [ok |-> ~SdkFails("initialize_mint"),
     program_id |-> program,
     accounts |-> <<AccountMeta(mint, FALSE, TRUE),
                    AccountMeta(SYSVAR_RENT_ID, FALSE, FALSE)>>,
     data |-> Bytes(<<Word("InitializeMint", decimals, 0), authority, freeze>>, 0)]

mint_to(program, mint, account, owner, amount) ==
    [ok |-> ~SdkFails("mint_to"),
     program_id |-> program,
     accounts |-> <<AccountMeta(mint, FALSE, TRUE),
                    AccountMeta(account, FALSE, TRUE),
                    AccountMeta(owner, TRUE, FALSE)>>,
     data |-> Bytes(<<Word("MintTo", amount, 0)>>, 0)]

transfer_token(program, source, destination, authority, amount) ==
    [ok |-> ~SdkFails("transfer_token"),
     program_id |-> program,
     accounts |-> <<AccountMeta(source, FALSE, TRUE),
                    AccountMeta(destination, FALSE, TRUE),
                    AccountMeta(authority, TRUE, FALSE)>>,
     data |-> Bytes(<<Word("Transfer", amount, 0)>>, 0)]

transfer(from, to, lamports) ==
    [ok |-> TRUE,
     program_id |-> SYSTEM_PROGRAM_ID,
     accounts |-> <<AccountMeta(from, TRUE, TRUE),
                    AccountMeta(to, FALSE, TRUE)>>,
     data |-> Bytes(<<Word("SystemTransfer", lamports, 0)>>, 0)]

-----------------------------------------------------------------------------
(* Responses *)

\* An error body that also carries a data member.
ErrorBodyWithData(msg) == [success |-> FALSE, error |-> msg, data |-> [none |-> TRUE]]

\* {"success": false, "error": msg}
ErrorBody(msg) == [success |-> FALSE, error |-> msg]

\* {"success": true, "data": data}
SuccessBody(data) == [success |-> TRUE, data |-> data]

\* (StatusCode, Json(body)).into_response(); calls lists the SDK instruction
\* constructors the handler invoked on the way.
Respond(status, body, calls) ==
    [kind |-> "envelope", status |-> status, body |-> body, calls |-> calls]

\* Result::unwrap on Err: the handler's task panics and the connection gets
\* no response.
Panic(msg) ==
    [kind |-> "panic", status |-> 0, body |-> [fault |-> msg], calls |-> <<>>]

\* The Json extractor's rejection when the body does not deserialize into
\* the handler's request type: 422 with a plain-text body; the handler is
\* not run.
JsonRejection ==
    [kind |-> "rejection", status |-> 422,
     body |-> [text |-> "Failed to deserialize the JSON body into the target type"],
     calls |-> <<>>]

AccountMetaResponse(account) ==
    [pubkey |-> PubkeyToString(account.pubkey),
     is_signer |-> account.is_signer,
     is_writable |-> account.is_writable]

TokenAccount(pubkey, isSigner) == [pubkey |-> pubkey, isSigner |-> isSigner]

-----------------------------------------------------------------------------
(* Handlers *)

root == [kind |-> "text", status |-> OK, body |-> [text |-> "gm Dharmin!"],
         calls |-> <<>>]

\* k is the key Keypair::new() drew.
generate_keypair(k) ==
    LET pub_key == PublicWord(k)
        secret_key == KeypairToBase58(k)
    IN  IF IsEmpty(secret_key)
        THEN Respond(INTERNAL_SERVER_ERROR, ErrorBody("Failed to generate keypair"), <<>>)
        ELSE Respond(OK, SuccessBody([pubkey |-> PubkeyToString(pub_key),
                                      secret |-> secret_key]), <<>>)

token_create(payload) ==
    IF payload.mintAuthority = Absent \/ payload.mint = Absent
    THEN Respond(BAD_REQUEST,
                 ErrorBody("Missing required fields: mintAuthority or mint"), <<>>)
    ELSE
    LET mint_pubkey == PubkeyFromStr(payload.mint)
        mint_authority_pubkey == PubkeyFromStr(payload.mintAuthority)
        ix == initialize_mint(TOKEN_PROGRAM_ID, mint_pubkey.key,
                              mint_authority_pubkey.key,
                              mint_authority_pubkey.key, payload.decimals)
    IN  IF ~mint_pubkey.ok
        THEN Respond(BAD_REQUEST, ErrorBody("Invalid mint public key format"), <<>>)
        ELSE IF ~mint_authority_pubkey.ok
        THEN Respond(BAD_REQUEST,
                     ErrorBody("Invalid mint authority public key format"), <<>>)
        ELSE IF ix.ok
        THEN Respond(OK,
                 SuccessBody(
                   [program_id |-> PubkeyToString(ix.program_id),
                    accounts |-> [i \in 1..Len(ix.accounts) |->
                                     AccountMetaResponse(ix.accounts[i])],
                    instruction_data |-> Base58Encode(ix.data)]),
                 <<"initialize_mint">>)
        ELSE Respond(BAD_REQUEST, ErrorBody("Failed to create mint instruction"),
                     <<"initialize_mint">>)

token_mint(payload) ==
    IF \/ payload.mint = Absent \/ payload.destination = Absent
       \/ payload.authority = Absent \/ payload.amount = AbsentNum
    THEN Respond(BAD_REQUEST,
                 ErrorBody("Missing required fields: mint, destination, authority, or amount"),
                 <<>>)
    ELSE
    LET mint_pubkey == PubkeyFromStr(payload.mint)
        destination_pubkey == PubkeyFromStr(payload.destination)
        authority_pubkey == PubkeyFromStr(payload.authority)
        associated_token_account ==
            get_associated_token_address(destination_pubkey.key, mint_pubkey.key)
        ix == mint_to(TOKEN_PROGRAM_ID, mint_pubkey.key, associated_token_account,
                      authority_pubkey.key, payload.amount)
    IN  IF ~mint_pubkey.ok
        THEN Respond(BAD_REQUEST, ErrorBody("Invalid mint public key format"), <<>>)
        ELSE IF ~destination_pubkey.ok
        THEN Respond(BAD_REQUEST,
                     ErrorBody("Invalid destination public key format"), <<>>)
        ELSE IF ~authority_pubkey.ok
        THEN Respond(BAD_REQUEST,
                     ErrorBody("Invalid authority public key format"), <<>>)
        ELSE IF ix.ok
        THEN Respond(OK,
                 SuccessBody(
                   [program_id |-> PubkeyToString(TOKEN_PROGRAM_ID),
                    accounts |-> [i \in 1..Len(ix.accounts) |->
                                     AccountMetaResponse(ix.accounts[i])],
                    instruction_data |-> Base58Encode(ix.data)]),
                 <<"mint_to">>)
        ELSE Respond(OK, ErrorBody("Failed to create mint instruction"),
                     <<"mint_to">>)

sign_msg(payload) ==
    IF payload.message = 0 \/ IsEmpty(payload.secret)
    THEN Respond(BAD_REQUEST, ErrorBody("Missing required fields"), <<>>)
    ELSE
    LET secret_bytes == Base58Decode(payload.secret)
        keypair == keypair_from_seed(secret_bytes.bytes)
        signature == SignMessage(keypair.key, payload.message)
    IN  IF ~secret_bytes.ok
        THEN Respond(BAD_REQUEST, ErrorBody("Invalid secret key format"), <<>>)
        ELSE IF ~keypair.ok
        THEN Respond(BAD_REQUEST,
                     ErrorBody("Failed to create keypair from seed"), <<>>)
        ELSE Respond(OK,
                 SuccessBody([signature |-> Base58Encode(signature),
                              pubkey |-> PubkeyToString(PublicWord(keypair.key)),
                              message |-> payload.message]),
                 <<>>)

\* A verifier that reports a failed verification as data of a success.
InvalidSignatureAsData(pubkey, message) ==
    Respond(OK, SuccessBody([valid |-> FALSE, pubkey |-> pubkey,
                             message |-> message]), <<>>)

\* The answer when the signature does not verify.
InvalidSignatureResponse(pubkey, message) ==
    Respond(BAD_REQUEST, ErrorBody("Invalid signature"), <<>>)

verify_msg(payload) ==
    IF payload.message = 0 \/ IsEmpty(payload.signature) \/ IsEmpty(payload.pubkey)
    THEN Respond(BAD_REQUEST, ErrorBody("Missing required fields"), <<>>)
    ELSE
    LET public_key == PubkeyFromStr(payload.pubkey)
        signature_bytes == Base58Decode(payload.signature)
        is_valid_signature ==
            SignatureVerify(signature_bytes.bytes, public_key.key, payload.message)
    IN  IF ~public_key.ok
        THEN Panic("called Result::unwrap() on an Err value")
        ELSE IF ~signature_bytes.ok
        THEN Respond(BAD_REQUEST, ErrorBody("Invalid signature format"), <<>>)
        ELSE IF ByteLen(signature_bytes.bytes) # SIGNATURE_BYTES
        THEN Respond(BAD_REQUEST,
                     ErrorBody("Signature must be 64 bytes long"), <<>>)
        ELSE IF ~is_valid_signature
        THEN InvalidSignatureResponse(payload.pubkey, payload.message)
        ELSE Respond(OK,
                 SuccessBody([valid |-> is_valid_signature,
                              pubkey |-> payload.pubkey,
                              message |-> payload.message]),
                 <<>>)

\* An amount check that lets zero through.
ZeroLamportsNever(lamports) == lamports < 0

\* lamports == 0
ZeroLamports(lamports) == lamports = 0

send_sol(payload) ==
    IF ZeroLamports(payload.lamports)
    THEN Respond(BAD_REQUEST, ErrorBody("Amount must be greater than 0"), <<>>)
    ELSE
    LET from_pubkey == PubkeyFromStr(payload.from)
        to_pubkey == PubkeyFromStr(payload.to)
        transfer_ix == transfer(from_pubkey.key, to_pubkey.key, payload.lamports)
    IN  IF ~from_pubkey.ok
        THEN Respond(BAD_REQUEST, ErrorBody("Invalid sender public key"), <<>>)
        ELSE IF ~to_pubkey.ok
        THEN Respond(BAD_REQUEST, ErrorBody("Invalid to public key format"), <<>>)
        ELSE Respond(OK,
                 SuccessBody(
                   [program_id |-> PubkeyToString(transfer_ix.program_id),
                    accounts |-> <<PubkeyToString(transfer_ix.accounts[1].pubkey),
                                   PubkeyToString(transfer_ix.accounts[2].pubkey)>>,
                    instruction_data |-> Base58Encode(transfer_ix.data)]),
                 <<"transfer">>)

send_token(payload) ==
    IF \/ payload.destination = Absent \/ payload.mint = Absent
       \/ payload.owner = Absent \/ payload.amount = AbsentNum
    THEN Respond(BAD_REQUEST,
                 ErrorBody("Missing required fields: destination, mint, owner, or amount"),
                 <<>>)
    ELSE
    LET destination_pubkey == PubkeyFromStr(payload.destination)
        mint_pubkey == PubkeyFromStr(payload.mint)
        owner_pubkey == PubkeyFromStr(payload.owner)
        destination_token_account ==
            get_associated_token_address(destination_pubkey.key, mint_pubkey.key)
        sender_token_account ==
            get_associated_token_address(owner_pubkey.key, mint_pubkey.key)
        ix == transfer_token(TOKEN_PROGRAM_ID, sender_token_account,
                             destination_token_account, owner_pubkey.key,
                             payload.amount)
    IN  IF ~destination_pubkey.ok
        THEN Respond(BAD_REQUEST,
                     ErrorBody("Invalid destination public key format"), <<>>)
        ELSE IF ~mint_pubkey.ok
        THEN Respond(BAD_REQUEST, ErrorBody("Invalid mint public key format"), <<>>)
        ELSE IF ~owner_pubkey.ok
        THEN Respond(BAD_REQUEST, ErrorBody("Invalid owner public key format"), <<>>)
        ELSE IF ix.ok
        THEN Respond(OK,
                 SuccessBody(
                   [program_id |-> PubkeyToString(ix.program_id),
                    accounts |->
                        <<TokenAccount(PubkeyToString(owner_pubkey.key), FALSE),
                          TokenAccount(PubkeyToString(destination_token_account), FALSE),
                          TokenAccount(PubkeyToString(owner_pubkey.key), FALSE)>>,
                    instruction_data |-> Base58Encode(ix.data)]),
                 <<"transfer_token">>)
        ELSE Respond(BAD_REQUEST,
                     ErrorBody("Failed to create transfer instruction: "),
                     <<"transfer_token">>)

-----------------------------------------------------------------------------
(* Requests *)

Optional(S) == S \cup {Absent}

OptionalNum(S) == S \cup {AbsentNum}

PubkeyTexts(n) == {PubkeyToString(PublicWord(k)) : k \in 1..n}

\* Strings offered in address fields: empty, not base58, base58 of one byte,
\* and the addresses of the keys.
AddressTexts == {EmptyText, BadText, OneByteText} \cup PubkeyTexts(NumKeys)

\* Strings offered as secrets: also a bare 32-byte seed and the 64-byte
\* keypair encoding /keypair hands out.
SecretTexts ==
    {EmptyText, BadText, OneByteText}
        \cup {Base58Encode(Bytes(<<SecretWord(k)>>, 0)) : k \in 1..NumKeys}
        \cup {KeypairToBase58(k) : k \in 1..NumKeys}

\* Strings offered as signatures: also every signature of the model and one
\* whose second half belongs to another message.
SignatureTexts ==
    {EmptyText, BadText, OneByteText}
        \cup {Base58Encode(SignMessage(k, m)) : k \in 1..NumKeys, m \in 1..NumMsgs}
        \cup {Base58Encode(Bytes(<<Word("sigR", 1, 1), Word("sigS", 1, 2)>>, 0))}

Messages == 0..NumMsgs

AddressTextsH == {OneByteText} \cup PubkeyTexts(NumKeysH)

SecretTextsH == {BadText} \cup {KeypairToBase58(k) : k \in 1..NumKeysH}

SignatureTextsH == {BadText} \cup {Base58Encode(SignMessage(k, 1)) : k \in 1..NumKeysH}

MessagesH == 0..1

CreateTokenRequests(A, D) ==
    {[endpoint |-> "/token/create",
      payload |-> [mintAuthority |-> a, mint |-> m, decimals |-> d]] :
        a \in Optional(A), m \in Optional(A), d \in OptionalNum(D)}

TokenMintRequests(A, N) ==
    {[endpoint |-> "/token/mint",
      payload |-> [mint |-> m, destination |-> d, authority |-> a, amount |-> n]] :
        m \in Optional(A), d \in Optional(A), a \in Optional(A), n \in OptionalNum(N)}

SignMsgRequests(M, S) ==
    {[endpoint |-> "/message/sign", payload |-> [message |-> m, secret |-> s]] :
        m \in OptionalNum(M), s \in Optional(S)}

VerifyMsgRequests(M, G, A) ==
    {[endpoint |-> "/message/verify",
      payload |-> [message |-> m, signature |-> g, pubkey |-> a]] :
        m \in OptionalNum(M), g \in Optional(G), a \in Optional(A)}

SendSOLRequests(A, N) ==
    {[endpoint |-> "/send/sol",
      payload |-> [from |-> f, to |-> t, lamports |-> n]] :
        f \in Optional(A), t \in Optional(A), n \in OptionalNum(N)}

SendTokenRequests(A, N) ==
    {[endpoint |-> "/send/token",
      payload |-> [destination |-> d, mint |-> m, owner |-> o, amount |-> n]] :
        d \in Optional(A), m \in Optional(A), o \in Optional(A), n \in OptionalNum(N)}

NoPayload == [none |-> TRUE]

KeypairRequest == [endpoint |-> "/keypair", payload |-> NoPayload]

RootRequest == [endpoint |-> "/", payload |-> NoPayload]

NoReq == [endpoint |-> "none", payload |-> NoPayload]

NoResp == [kind |-> "none", status |-> 0, body |-> NoPayload, calls |-> <<>>]

\* serde: an Option field may be missing (None); any other field must be
\* there, or the body does not deserialize into the request type.
Deserializes(r) ==
    CASE r.endpoint = "/token/create" -> r.payload.decimals # AbsentNum
      [] r.endpoint = "/token/mint" -> TRUE
      [] r.endpoint = "/message/sign" ->
            r.payload.message # AbsentNum /\ r.payload.secret # Absent
      [] r.endpoint = "/message/verify" ->
            /\ r.payload.message # AbsentNum
            /\ r.payload.signature # Absent
            /\ r.payload.pubkey # Absent
      [] r.endpoint = "/send/sol" ->
            /\ r.payload.from # Absent
            /\ r.payload.to # Absent
            /\ r.payload.lamports # AbsentNum
      [] r.endpoint = "/send/token" -> TRUE
      [] OTHER -> TRUE

\* Json<T> in a handler's signature: the extractor runs first and the
\* handler only when the body deserializes into T.
Extract(r, response) == IF Deserializes(r) THEN response ELSE JsonRejection

-----------------------------------------------------------------------------
(* The request/response cycle *)

NothingHeld ==
    [stage |-> "none", pubkey |-> EmptyText, secret |-> EmptyText,
     message |-> 0, signature |-> EmptyText, signer |-> EmptyText]

NothingSeen == [taken |-> FALSE, req |-> NoReq, resp |-> NoResp]

Init ==
    /\ sdkErr \in SUBSET FallibleConstructors
    /\ pc = "idle"
    /\ req = NoReq
    /\ resp = NoResp
    /\ held = NothingHeld
    /\ seen = NothingSeen

\* The router hands the connection the response for request r.
Answer(r, response) ==
    /\ req' = r
    /\ resp' = response
    /\ pc' = "responded"
    /\ UNCHANGED <<sdkErr, held, seen>>

GetRoot ==
    /\ pc = "idle"
    /\ Answer(RootRequest, root)

PostKeypair ==
    /\ pc = "idle"
    /\ \E k \in 1..NumKeys : Answer(KeypairRequest, generate_keypair(k))

CreateTokenRequest == CreateTokenRequests(AddressTexts, 0..MaxDecimals)

PostTokenCreate ==
    /\ pc = "idle"
    /\ \E r \in CreateTokenRequest : Answer(r, Extract(r, token_create(r.payload)))

TokenMintRequest == TokenMintRequests(AddressTexts, 0..MaxAmount)

PostTokenMint ==
    /\ pc = "idle"
    /\ \E r \in TokenMintRequest : Answer(r, Extract(r, token_mint(r.payload)))

SignMsgRequest == SignMsgRequests(Messages, SecretTexts)

PostMessageSign ==
    /\ pc = "idle"
    /\ \E r \in SignMsgRequest : Answer(r, Extract(r, sign_msg(r.payload)))

VerifyMsgRequest == VerifyMsgRequests(Messages, SignatureTexts, AddressTexts)

PostMessageVerify ==
    /\ pc = "idle"
    /\ \E r \in VerifyMsgRequest : Answer(r, Extract(r, verify_msg(r.payload)))

SendSOLRequest == SendSOLRequests(AddressTexts, 0..MaxAmount)

PostSendSol ==
    /\ pc = "idle"
    /\ \E r \in SendSOLRequest : Answer(r, Extract(r, send_sol(r.payload)))

SendTokenRequest == SendTokenRequests(AddressTexts, 0..MaxAmount)

PostSendToken ==
    /\ pc = "idle"
    /\ \E r \in SendTokenRequest : Answer(r, Extract(r, send_token(r.payload)))

IsSuccess(r) == r.kind = "envelope" /\ r.body.success

\* The response is sent and the request's values are dropped.
Deliver ==
    /\ pc = "responded"
    /\ pc' = "idle"
    /\ req' = NoReq
    /\ resp' = NoResp
    /\ UNCHANGED <<sdkErr, held, seen>>

\* The client keeps the pair /keypair returned.
KeepKeypair ==
    /\ pc = "responded"
    /\ req.endpoint = "/keypair"
    /\ IsSuccess(resp)
    /\ held' = [NothingHeld EXCEPT !.stage = "keypair",
                                   !.pubkey = resp.body.data.pubkey,
                                   !.secret = resp.body.data.secret]
    /\ pc' = "idle"
    /\ req' = NoReq
    /\ resp' = NoResp
    /\ UNCHANGED <<sdkErr, seen>>

\* The client keeps the signature /message/sign returned for its secret.
KeepSignature ==
    /\ pc = "responded"
    /\ req.endpoint = "/message/sign"
    /\ held.stage # "none"
    /\ IsSuccess(resp)
    /\ req.payload.secret = held.secret
    /\ held' = [held EXCEPT !.stage = "signed",
                            !.message = resp.body.data.message,
                            !.signature = resp.body.data.signature,
                            !.signer = resp.body.data.pubkey]
    /\ pc' = "idle"
    /\ req' = NoReq
    /\ resp' = NoResp
    /\ UNCHANGED <<sdkErr, seen>>

Next ==
    \/ GetRoot
    \/ PostKeypair
    \/ PostTokenCreate
    \/ PostTokenMint
    \/ PostMessageSign
    \/ PostMessageVerify
    \/ PostSendSol
    \/ PostSendToken
    \/ Deliver
    \/ KeepKeypair
    \/ KeepSignature

Spec == Init /\ [][Next]_vars

-----------------------------------------------------------------------------
(* Repeated requests: the same cycle, remembering one earlier exchange *)

InitH ==
    /\ sdkErr \in {{}, FallibleConstructors}
    /\ pc = "idle"
    /\ req = NoReq
    /\ resp = NoResp
    /\ held = NothingHeld
    /\ seen = NothingSeen

PostKeypairH ==
    /\ pc = "idle"
    /\ \E k \in 1..(NumKeysH + 1) : Answer(KeypairRequest, generate_keypair(k))

CreateTokenRequestH == CreateTokenRequests(AddressTextsH, 0..MaxAmountH)

PostTokenCreateH ==
    /\ pc = "idle"
    /\ \E r \in CreateTokenRequestH : Answer(r, Extract(r, token_create(r.payload)))

TokenMintRequestH == TokenMintRequests(AddressTextsH, 0..MaxAmountH)

PostTokenMintH ==
    /\ pc = "idle"
    /\ \E r \in TokenMintRequestH : Answer(r, Extract(r, token_mint(r.payload)))

SignMsgRequestH == SignMsgRequests(MessagesH, SecretTextsH)

PostMessageSignH ==
    /\ pc = "idle"
    /\ \E r \in SignMsgRequestH : Answer(r, Extract(r, sign_msg(r.payload)))

VerifyMsgRequestH == VerifyMsgRequests(MessagesH, SignatureTextsH, AddressTextsH)

PostMessageVerifyH ==
    /\ pc = "idle"
    /\ \E r \in VerifyMsgRequestH : Answer(r, Extract(r, verify_msg(r.payload)))

SendSOLRequestH == SendSOLRequests(AddressTextsH, 0..MaxAmountH)

PostSendSolH ==
    /\ pc = "idle"
    /\ \E r \in SendSOLRequestH : Answer(r, Extract(r, send_sol(r.payload)))

SendTokenRequestH == SendTokenRequests(AddressTextsH, 0..MaxAmountH)

PostSendTokenH ==
    /\ pc = "idle"
    /\ \E r \in SendTokenRequestH : Answer(r, Extract(r, send_token(r.payload)))

\* The exchange is recorded before the response is sent.
Remember ==
    /\ pc = "responded"
    /\ seen' = [taken |-> TRUE, req |-> req, resp |-> resp]
    /\ pc' = "idle"
    /\ req' = NoReq
    /\ resp' = NoResp
    /\ UNCHANGED <<sdkErr, held>>

NextH ==
    \/ GetRoot
    \/ PostKeypairH
    \/ PostTokenCreateH
    \/ PostTokenMintH
    \/ PostMessageSignH
    \/ PostMessageVerifyH
    \/ PostSendSolH
    \/ PostSendTokenH
    \/ Deliver
    \/ Remember

SpecH == InitH /\ [][NextH]_vars

-----------------------------------------------------------------------------
(* Vocabulary of the properties *)

Responded == pc = "responded"

FallibleEndpoints == {"/token/create", "/token/mint", "/send/token"}

InstructionEndpoints == FallibleEndpoints \cup {"/send/sol"}

DecodesTo(s, n) == s.kind = "b58" /\ ByteLen(s.bytes) = n

WrongLength(s) == s.kind = "b58" /\ ByteLen(s.bytes) # 32

Malformed(s) == s.kind = "bad" \/ WrongLength(s)

ClientError(r) == r.status >= 400 /\ r.status <= 499

\* The uniform error envelope: success=false with an error message.
ErrorEnvelope(r) ==
    /\ r.kind = "envelope"
    /\ r.body.success = FALSE
    /\ "error" \in DOMAIN r.body

\* The address fields of a request in the order its handler parses them,
\* each with the message that names it.
AddressFields(r) ==
    CASE r.endpoint = "/token/create" ->
            <<[value |-> r.payload.mint, error |-> "Invalid mint public key format"],
              [value |-> r.payload.mintAuthority,
               error |-> "Invalid mint authority public key format"]>>
      [] r.endpoint = "/token/mint" ->
            <<[value |-> r.payload.mint, error |-> "Invalid mint public key format"],
              [value |-> r.payload.destination,
               error |-> "Invalid destination public key format"],
              [value |-> r.payload.authority,
               error |-> "Invalid authority public key format"]>>
      [] r.endpoint = "/send/sol" ->
            <<[value |-> r.payload.from, error |-> "Invalid sender public key"],
              [value |-> r.payload.to, error |-> "Invalid to public key format"]>>
      [] r.endpoint = "/send/token" ->
            <<[value |-> r.payload.destination,
               error |-> "Invalid destination public key format"],
              [value |-> r.payload.mint, error |-> "Invalid mint public key format"],
              [value |-> r.payload.owner, error |-> "Invalid owner public key format"]>>
      [] OTHER -> <<>>

\* The number the request carries (decimals, amount or lamports).
NumberField(r) ==
    CASE r.endpoint = "/token/create" -> r.payload.decimals
      [] r.endpoint = "/send/sol" -> r.payload.lamports
      [] OTHER -> r.payload.amount

AllPresent(r) ==
    /\ NumberField(r) # AbsentNum
    /\ \A i \in 1..Len(AddressFields(r)) : AddressFields(r)[i].value # Absent

ConstructionFailureErrors ==
    {"Failed to create mint instruction", "Failed to create transfer instruction: "}

-----------------------------------------------------------------------------
\* C1: on /token/create, /token/mint and /send/token, when the SDK's
\* instruction constructor returns an error for validated arguments, the
\* response is a 400-class status with success=false and an error message,
\* never status 200.
C1_ConstructionFailureIsClientError ==
    (/\ Responded
     /\ req.endpoint \in FallibleEndpoints
     /\ resp.calls # <<>>
     /\ resp.calls[1] \in sdkErr)
        => /\ ErrorEnvelope(resp)
           /\ ClientError(resp)
           /\ resp.status # 200

\* C2: every payload that deserializes into the endpoint's request type is
\* answered by the handler with the JSON envelope; no input makes a handler
\* panic (in particular a /message/verify pubkey that does not decode to 32
\* bytes gets a 400-class error envelope).
C2_NoHandlerPanics ==
    (/\ Responded
     /\ req.endpoint \notin {"/", "/keypair"}
     /\ Deserializes(req))
        => /\ resp.kind = "envelope"
           /\ (/\ req.endpoint = "/message/verify"
               /\ req.payload.message # 0
               /\ ~IsEmpty(req.payload.signature)
               /\ ~DecodesTo(req.payload.pubkey, 32))
                  => (ErrorEnvelope(resp) /\ ClientError(resp))


\* The string fields of a request that are not addresses.
OtherTextFields(r) ==
    CASE r.endpoint = "/message/sign" -> <<r.payload.secret>>
      [] r.endpoint = "/message/verify" -> <<r.payload.signature, r.payload.pubkey>>
      [] OTHER -> <<>>

HasMessage(r) == r.endpoint \in {"/message/sign", "/message/verify"}

\* Some required field of the request is missing or is the empty string.
MissingOrEmptyField(r) ==
    \/ \E i \in 1..Len(AddressFields(r)) :
          AddressFields(r)[i].value = Absent \/ IsEmpty(AddressFields(r)[i].value)
    \/ \E i \in 1..Len(OtherTextFields(r)) :
          OtherTextFields(r)[i] = Absent \/ IsEmpty(OtherTextFields(r)[i])
    \/ HasMessage(r) /\ r.payload.message \in {AbsentNum, 0}
    \/ ~HasMessage(r) /\ NumberField(r) = AbsentNum

\* C3: on every POST endpoint that takes fields, a request in which a
\* required field is absent or an empty string is answered with a 400-class
\* status and the error envelope.
C3_MissingFieldIsErrorEnvelope ==
    (/\ Responded
     /\ req.endpoint \notin {"/", "/keypair"}
     /\ MissingOrEmptyField(req))
        => (ErrorEnvelope(resp) /\ ClientError(resp))

\* C4: /send/sol with lamports = 0 is answered with a 400-class error with
\* success=false whatever the from and to strings are, and the SDK transfer
\* constructor is not invoked.
C4_ZeroLamportsRejected ==
    (/\ Responded
     /\ req.endpoint = "/send/sol"
     /\ Deserializes(req)
     /\ req.payload.lamports = 0)
        => /\ ErrorEnvelope(resp)
           /\ ClientError(resp)
           /\ resp.calls = <<>>

\* C4 witness: zero lamports between two well-formed addresses is refused.
C4_Witness ==
    /\ Responded
    /\ req.endpoint = "/send/sol"
    /\ req.payload.lamports = 0
    /\ DecodesTo(req.payload.from, 32)
    /\ DecodesTo(req.payload.to, 32)
    /\ req.payload.from # req.payload.to
    /\ resp.status = BAD_REQUEST
    /\ resp.calls = <<>>

\* C5: every response a POST handler produces carries exactly one of data
\* and error: data and no error when success is true, error and no data
\* when success is false.
C5_ExactlyOneOfDataAndError ==
    (/\ Responded
     /\ req.endpoint # "/"
     /\ resp.kind = "envelope")
        => /\ "success" \in DOMAIN resp.body
           /\ ("data" \in DOMAIN resp.body) <=> resp.body.success
           /\ ("error" \in DOMAIN resp.body) <=> ~resp.body.success

\* C5 witness: the error path that answers with status 200 still carries
\* error and no data.
C5_Witness ==
    /\ Responded
    /\ req.endpoint = "/token/mint"
    /\ resp.kind = "envelope"
    /\ resp.status = OK
    /\ ~resp.body.success
    /\ "error" \in DOMAIN resp.body
    /\ "data" \notin DOMAIN resp.body

\* The instruction the SDK constructs for a request whose addresses parse.
SdkKey(s) == s.bytes.words[1]

SdkInstruction(r) ==
    CASE r.endpoint = "/token/create" ->
            initialize_mint(TOKEN_PROGRAM_ID, SdkKey(r.payload.mint),
                            SdkKey(r.payload.mintAuthority),
                            SdkKey(r.payload.mintAuthority), r.payload.decimals)
      [] r.endpoint = "/token/mint" ->
            mint_to(TOKEN_PROGRAM_ID, SdkKey(r.payload.mint),
                    get_associated_token_address(SdkKey(r.payload.destination),
                                                 SdkKey(r.payload.mint)),
                    SdkKey(r.payload.authority), r.payload.amount)
      [] r.endpoint = "/send/sol" ->
            transfer(SdkKey(r.payload.from), SdkKey(r.payload.to), r.payload.lamports)
      [] r.endpoint = "/send/token" ->
            transfer_token(TOKEN_PROGRAM_ID,
                    get_associated_token_address(SdkKey(r.payload.owner),
                                                 SdkKey(r.payload.mint)),
                    get_associated_token_address(SdkKey(r.payload.destination),
                                                 SdkKey(r.payload.mint)),
                    SdkKey(r.payload.owner), r.payload.amount)

\* A response entry carries the account's address and both flags unchanged.
CarriesMeta(e, meta) ==
    /\ "pubkey" \in DOMAIN e
    /\ e.pubkey = PubkeyToString(meta.pubkey)
    /\ \/ "is_signer" \in DOMAIN e /\ e.is_signer = meta.is_signer
       \/ "isSigner" \in DOMAIN e /\ e.isSigner = meta.is_signer
    /\ "is_writable" \in DOMAIN e
    /\ e.is_writable = meta.is_writable

\* C6: on success every instruction-building endpoint returns as accounts
\* exactly the ordered account list of the instruction the SDK constructed,
\* each entry with that account's address, is-signer and is-writable flag.
C6_AccountsAreSdkAccounts ==
    (/\ Responded
     /\ req.endpoint \in InstructionEndpoints
     /\ IsSuccess(resp))
        => LET ix == SdkInstruction(req)
               accounts == resp.body.data.accounts
           IN  /\ Len(accounts) = Len(ix.accounts)
               /\ \A i \in 1..Len(accounts) : CarriesMeta(accounts[i], ix.accounts[i])

\* C6 restricted to the two endpoints that map the SDK's list entry by entry.
C6_TokenCreateAndMintOnly ==
    (/\ Responded
     /\ req.endpoint \in {"/token/create", "/token/mint"}
     /\ IsSuccess(resp))
        => LET ix == SdkInstruction(req)
               accounts == resp.body.data.accounts
           IN  /\ Len(accounts) = Len(ix.accounts)
               /\ \A i \in 1..Len(accounts) : CarriesMeta(accounts[i], ix.accounts[i])


\* A /message/verify request whose fields are there, non-empty and of the
\* right decoded lengths.
WellFormedVerify(r) ==
    /\ r.endpoint = "/message/verify"
    /\ Deserializes(r)
    /\ r.payload.message # 0
    /\ DecodesTo(r.payload.pubkey, 32)
    /\ DecodesTo(r.payload.signature, SIGNATURE_BYTES)

\* The signature is the one the holder of the public key produces for the
\* message.
GenuineSignature(r) ==
    \E k \in 0..NumKeys :
        /\ r.payload.pubkey = PubkeyToString(PublicWord(k))
        /\ r.payload.signature = Base58Encode(SignMessage(k, r.payload.message))

\* The messages /message/verify returns for malformed input.
MalformedVerifyErrors ==
    {verify_msg(r.payload).body.error :
        r \in {q \in VerifyMsgRequest :
                /\ Deserializes(q)
                /\ ~WellFormedVerify(q)
                /\ verify_msg(q.payload).kind = "envelope"}}

\* C7: /message/verify with well-formed inputs answers 200 with valid=true
\* exactly when the signature verifies; otherwise it answers a 400-class
\* error whose message differs from every message for malformed input; a
\* success response never carries valid=false.
C7_VerifyReportsValidity ==
    /\ (Responded /\ WellFormedVerify(req))
          => /\ (resp.status = 200 /\ IsSuccess(resp) /\ resp.body.data.valid)
                    <=> GenuineSignature(req)
             /\ ~GenuineSignature(req)
                    => /\ ErrorEnvelope(resp)
                       /\ ClientError(resp)
                       /\ resp.body.error \notin MalformedVerifyErrors
    /\ (Responded /\ req.endpoint = "/message/verify" /\ IsSuccess(resp))
          => resp.body.data.valid

\* C7 witness: a 64-byte signature of another message is refused as an
\* invalid signature.
C7_Witness ==
    /\ Responded
    /\ WellFormedVerify(req)
    /\ ~GenuineSignature(req)
    /\ req.payload.signature = Base58Encode(SignMessage(1, 2))
    /\ req.payload.message = 1
    /\ req.payload.pubkey = PubkeyToString(PublicWord(1))
    /\ resp.status = BAD_REQUEST
    /\ resp.body.error = "Invalid signature"
    /\ Cardinality(MalformedVerifyErrors) = 3

\* C8: with the (pubkey, secret) pair /keypair returned, /message/sign of a
\* non-empty message under the secret succeeds and returns the same public
\* key, and /message/verify of the returned signature with that message and
\* the keypair's pubkey succeeds with valid=true.
C8_SignThenVerifyRoundTrip ==
    /\ (/\ Responded
        /\ req.endpoint = "/message/sign"
        /\ held.stage # "none"
        /\ req.payload.secret = held.secret
        /\ req.payload.message \notin {AbsentNum, 0})
          => /\ IsSuccess(resp)
             /\ resp.status = 200
             /\ resp.body.data.pubkey = held.pubkey
    /\ (/\ Responded
        /\ req.endpoint = "/message/verify"
        /\ held.stage = "signed"
        /\ req.payload.message = held.message
        /\ req.payload.signature = held.signature
        /\ req.payload.pubkey = held.pubkey)
          => /\ IsSuccess(resp)
             /\ resp.status = 200
             /\ resp.body.data.valid

\* C8 witness: the round trip completed for the second key and message.
C8_Witness ==
    /\ Responded
    /\ req.endpoint = "/message/verify"
    /\ held.stage = "signed"
    /\ held.secret = KeypairToBase58(2)
    /\ held.message = 2
    /\ req.payload.message = held.message
    /\ req.payload.signature = held.signature
    /\ req.payload.pubkey = held.pubkey
    /\ IsSuccess(resp)
    /\ resp.body.data.valid

\* The first malformed address field in the handler's order.
FirstMalformed(r) ==
    CHOOSE i \in 1..Len(AddressFields(r)) :
        /\ Malformed(AddressFields(r)[i].value)
        /\ \A j \in 1..(i - 1) : ~Malformed(AddressFields(r)[j].value)

====
